---- MODULE Spec2Model ----
(***************************************************************************)
(* A model of the request router github.com/olegshs/router: scopes         *)
(* (Router), routes (Route), the route disambiguation table (routeMap),    *)
(* the named-route registry, middleware chains, parameter conditions,      *)
(* the pattern compiler and reverse URL generation.                        *)
(*                                                                         *)
(* Go strings are modelled as sequences of one-character strings, so that  *)
(* regular-expression matching, strings.ReplaceAll, strings.Trim and       *)
(* fmt.Sprint are computed character by character as the code does.       *)
(***************************************************************************)
EXTENDS Integers, Sequences, FiniteSets, TLC

\* ------------------------------------------------------------------ bounds

\* Registration calls (Group, Prefix, Use, Where, NewRoute, Name, Handle,
\* HandleNotFound) a run explores before it only serves requests and
\* generates URLs.
MaxCalls == 5
\* The same budget for the runs that register Routes under shared keys
\* (SpecMatch), that register keys from several scopes (SpecRegister) and
\* that generate URLs (SpecUrl).
MaxMatchCalls == 6
MaxRegisterCalls == 4
MaxUrlCalls == 4
MaxNameCalls == 5
MaxRoundTripCalls == 5
MaxWhereCalls == 5
MaxIndexCalls == 5
MaxMatchIndex == 2
MaxCaptured == 3

\* ------------------------------------------------------------- characters

Digits == {"0", "1", "2", "3", "4", "5", "6", "7", "8", "9"}

Letters ==
    {"a", "b", "c", "d", "e", "f", "g", "h", "i", "j", "k", "l", "m",
     "n", "o", "p", "q", "r", "s", "t", "u", "v", "w", "x", "y", "z",
     "A", "B", "C", "D", "E", "F", "G", "H", "I", "J", "K", "L", "M",
     "N", "O", "P", "Q", "R", "S", "T", "U", "V", "W", "X", "Y", "Z"}

\* [A-Za-z_] and [0-9A-Za-z_] of paramRegexp.
IdentStart == Letters \cup {"_"}
IdentChar == IdentStart \cup Digits

\* s[from..] (1-based), the empty string when from is past the end.
Drop(s, from) == SubSeq(s, from, Len(s))

\* Whether t occurs in s at position i.
HasAt(s, i, t) ==
    /\ i >= 1
    /\ i + Len(t) - 1 <= Len(s)
    /\ SubSeq(s, i, i + Len(t) - 1) = t

\* strings.ReplaceAll(s, old, new) for a non-empty old: the non-overlapping
\* occurrences of old, found left to right, are replaced by new.
RECURSIVE ReplaceAll(_, _, _)
ReplaceAll(s, old, new) ==
    IF s = <<>> THEN <<>>
    ELSE IF HasAt(s, 1, old)
         THEN new \o ReplaceAll(Drop(s, Len(old) + 1), old, new)
         ELSE <<s[1]>> \o ReplaceAll(Drop(s, 2), old, new)

\* strings.ReplaceAll(s, c, ""): every occurrence of the character c removed.
RemoveChar(s, c) == SelectSeq(s, LAMBDA x : x # c)

\* strings.Trim(s, "/"): leading and trailing slashes removed.
RECURSIVE TrimLeft(_)
TrimLeft(s) ==
    IF s # <<>> /\ s[1] = "/" THEN TrimLeft(Drop(s, 2)) ELSE s

RECURSIVE TrimRight(_)
TrimRight(s) ==
    IF s # <<>> /\ s[Len(s)] = "/" THEN TrimRight(SubSeq(s, 1, Len(s) - 1)) ELSE s

Trim(s) == TrimRight(TrimLeft(s))

\* The decimal digits of a natural number: fmt.Sprintf("%d", n), and
\* fmt.Sprint of an int.
DigitChar(d) ==
    CASE d = 0 -> "0" [] d = 1 -> "1" [] d = 2 -> "2" [] d = 3 -> "3"
      [] d = 4 -> "4" [] d = 5 -> "5" [] d = 6 -> "6" [] d = 7 -> "7"
      [] d = 8 -> "8" [] d = 9 -> "9"

RECURSIVE Itoa(_)
Itoa(n) ==
    IF n < 10 THEN <<DigitChar(n)>>
    ELSE Itoa(n \div 10) \o <<DigitChar(n % 10)>>

\* ---------------------------------------------------------------- pattern

\* The end (exclusive) of the run of identifier characters starting at i.
RECURSIVE IdentEnd(_, _)
IdentEnd(s, i) ==
    IF i <= Len(s) /\ s[i] \in IdentChar THEN IdentEnd(s, i + 1) ELSE i

Ellipsis == <<".", ".", ".">>

\* One match of paramRegexp, {([A-Za-z_][0-9A-Za-z_]*)(\.\.\.)?}, anchored at
\* position i of s: <<m[0], m[1], m[2]>>, or <<>> when there is none.
MatchAt(s, i) ==
    IF ~(i + 1 <= Len(s) /\ s[i] = "{" /\ s[i + 1] \in IdentStart) THEN <<>>
    ELSE LET j == IdentEnd(s, i + 1)
             name == SubSeq(s, i + 1, j - 1)
         IN  IF HasAt(s, j, Ellipsis \o <<"}">>)
             THEN <<SubSeq(s, i, j + 3), name, Ellipsis>>
             ELSE IF HasAt(s, j, <<"}">>)
                  THEN <<SubSeq(s, i, j), name, <<>> >>
                  ELSE <<>>

\* paramRegexp.FindAllStringSubmatch(s, -1) from position i on: the leftmost
\* non-overlapping matches.
RECURSIVE FindAllFrom(_, _)
FindAllFrom(s, i) ==
    IF i > Len(s) THEN <<>>
    ELSE LET m == MatchAt(s, i)
         IN  IF m = <<>> THEN FindAllFrom(s, i + 1)
             ELSE <<m>> \o FindAllFrom(s, i + Len(m[1]))

\* pattern.paramNamesMatch
paramNamesMatch(p) == FindAllFrom(p, 1)

\* pattern.paramNames
paramNames(p) ==
    LET a == paramNamesMatch(p)
    IN  [i \in 1..Len(a) |-> a[i][2]]

\* The loop of pattern.httpRouterString: matches a[i..] replaced in s, the
\* match of 0-based index i - 1 by ":<i-1>" or "*<i-1>".
RECURSIVE ReplaceMarkers(_, _, _)
ReplaceMarkers(s, a, i) ==
    IF i > Len(a) THEN s
    ELSE LET m == a[i]
             repl == IF m[3] = Ellipsis
                     THEN <<"*">> \o Itoa(i - 1)
                     ELSE <<":">> \o Itoa(i - 1)
         IN  ReplaceMarkers(ReplaceAll(s, m[1], repl), a, i + 1)

\* pattern.httpRouterString
httpRouterString(p) ==
    LET s == RemoveChar(RemoveChar(p, ":"), "*")
    IN  ReplaceMarkers(s, FindAllFrom(s, 1), 1)

\* helpers.Slice.IndexOf, 0-based, -1 when absent.
RECURSIVE IndexFrom(_, _, _)
IndexFrom(slice, value, i) ==
    IF i > Len(slice) THEN -1
    ELSE IF slice[i] = value THEN i - 1
         ELSE IndexFrom(slice, value, i + 1)

\* An IndexOf that answers 0 for a value the slice does not hold.
IndexOfOrZero(slice, value) ==
    IF IndexFrom(slice, value, 1) < 0 THEN 0 ELSE IndexFrom(slice, value, 1)

IndexOf(slice, value) == IndexFrom(slice, value, 1)

\* ------------------------------------------------------------- conditions

\* The predicates callers attach with Where / WhereFunc: the regular
\* expressions ^\d+$ and ^[a-z]+$ (regexp.MatchString of the value).
Preds == {"digits", "lower"}

LowerLetters ==
    {"a", "b", "c", "d", "e", "f", "g", "h", "i", "j", "k", "l", "m",
     "n", "o", "p", "q", "r", "s", "t", "u", "v", "w", "x", "y", "z"}

Accepts(pred, v) ==
    CASE pred = "digits" -> v # <<>> /\ \A i \in 1..Len(v) : v[i] \in Digits
      [] pred = "lower" -> v # <<>> /\ \A i \in 1..Len(v) : v[i] \in LowerLetters

\* References to conditions maps (Go maps are reference values): the map
\* made for Router i and the map made for Route j.
RouterRef(i) == <<"router", i>>
RouteRef(j) == <<"route", j>>

\* A copy that shares the source map instead of making a new one.
cloneShared(heap, c, new) == [ref |-> c, heap |-> heap]

\* A copy that makes the new map and leaves it empty.
cloneEmpty(heap, c, new) ==
    [ref |-> new,
     heap |-> [x \in DOMAIN heap \cup {new} |->
                  IF x = new THEN [k \in {} |-> 0] ELSE heap[x]]]

\* conditions.clone: a new map, stored at reference new, holding the
\* entries of the map c. Returns the reference and the heap after the call.
conditionsClone(heap, c, new) ==
    [ref |-> new,
     heap |-> [x \in DOMAIN heap \cup {new} |-> IF x = new THEN heap[c] ELSE heap[x]]]

\* A match that ignores the predicates.
matchAny(c, params) == {"true"}

\* conditions.match over the captured values params (index k of the code is
\* element k + 1): the outcomes the iteration over the map can give. An
\* index past the captured values is a run-time panic; the iteration order
\* of a Go map is unspecified, so a failing predicate may be met first.
conditionsMatch(c, params) ==
    LET inRange == {k \in DOMAIN c : k < Len(params)}
        fails == {k \in inRange : ~Accepts(c[k], params[k + 1])}
    IN  IF inRange # DOMAIN c
        THEN {"panic"} \cup (IF fails # {} THEN {"false"} ELSE {})
        ELSE IF fails # {} THEN {"false"} ELSE {"true"}

\* ------------------------------------------------------------- middleware

\* Middleware functions are observers that call the next handler; a handler
\* is the sequence of the layers it runs, outermost first, ending with the
\* terminal handler's name. middleware[i](handler) puts layer i in front.
Adapter == "adapter"
DefaultNotFound == "http.NotFound"

\* A composition that applies the list from the front, so that the last
\* entry ends outermost.
RECURSIVE wrapReversed(_, _)
wrapReversed(middleware, handler) ==
    IF middleware = <<>> THEN handler
    ELSE wrapReversed(Drop(middleware, 2), <<middleware[1]>> \o handler)

\* The loop of middlewareList.wrap, i from len - 1 down to 0.
RECURSIVE wrapFrom(_, _, _)
wrapFrom(middleware, handler, i) ==
    IF i < 1 THEN handler
    ELSE wrapFrom(middleware, <<middleware[i]>> \o handler, i - 1)

\* middlewareList.wrap
wrap(middleware, handler) == wrapFrom(middleware, handler, Len(middleware))

\* middlewareList.clone
middlewareClone(middleware) == [i \in 1..Len(middleware) |-> middleware[i]]

\* ----------------------------------------------------------------- inputs

\* Strings, as sequences of characters.
S_users == <<"/", "u", "s", "e", "r", "s">>
S_userId == <<"/", "{", "u", "s", "e", "r", "I", "d", "}">>
S_id == <<"/", "{", "i", "d", "}">>
S_name == <<"/", "{", "n", "a", "m", "e", "}">>
N_userId == <<"u", "s", "e", "r", "I", "d">>
N_id == <<"i", "d">>
N_name == <<"n", "a", "m", "e">>
V_111 == <<"1", "1", "1">>
V_abc == <<"a", "b", "c">>

\* Arguments of Prefix, of NewRoute, and of Where / WhereFunc.
PrefixPaths == {S_users, S_userId}
RoutePaths == {<<>>, S_id, S_name}
ParamNames == {N_userId, N_id, N_name}
MethodLists == {<<"GET">>, <<"GET", "POST", "GET">>}

\* Middleware functions given to Use, handlers given to Handle and
\* HandleNotFound, names given to Name.
Middlewares == {"A", "B"}
MiddlewareLists == {<<"A">>, <<"B">>, <<"A", "B">>}
Handlers == {"h"}
NotFoundHandlers == {"nf"}
Names == {"n1"}

\* Raw substrings the external matcher captures for a placeholder (a
\* remainder capture may carry slashes).
RawValues == {V_111, <<"/">> \o V_abc \o <<"/">>}

\* The data model's invariant on patterns: placeholder names are unique
\* within a pattern. Callers keep it; the model draws only such templates.
UniqueNames(p) ==
    LET names == paramNames(p)
    IN  \A i, j \in 1..Len(names) : names[i] = names[j] => i = j

\* The external matcher refuses (panics on) a pattern that does not begin
\* with a slash; the model makes only calls that return.
ValidPath(p) == p # <<>> /\ p[1] = "/"

\* ------------------------------------------------------------------ state

VARIABLES
    routers,       \* the Router objects, 1 = the router made by New
    routeObjs,     \* the Route objects, by handle
    conds,         \* the conditions maps, by reference
    routes,        \* Router.routes, the routeMap shared by all clones
    routeByName,   \* the name -> Route maps, by reference
    handlers,      \* Router.r: the handler registered for each key
    registerCalls, \* Router.r: how often a key was registered
    notFound,      \* Router.r.NotFound
    createdWith,   \* history: its scope's middleware when a Route was made
    nameCalls,     \* history: the calls of Route.Name, in order
    prefixCalls,   \* history: the paths of the Prefix calls around each Router
    calls,         \* history: the number of registration calls made
    last           \* the last call and what it returned

vars == <<routers, routeObjs, conds, routes, routeByName, handlers,
          registerCalls, notFound, createdWith, nameCalls, prefixCalls, calls, last>>

EmptyMap == [k \in {} |-> 0]

\* What last holds after a registration call: it returned, or it panicked
\* (the call is abandoned and the program's setup aborts).
Returned == [op |-> "call", panic |-> FALSE]
Panic == [op |-> "call", panic |-> TRUE]

Put(f, k, v) == [y \in DOMAIN f \cup {k} |-> IF y = k THEN v ELSE f[y]]

\* The reference to the name -> Route map made by New (maps are reference
\* values: every Router holds a reference in its routeByName field).
RegistryRef(i) == <<"routeByName", i>>

RouterIds == 1..Len(routers)
RouteIds == 1..Len(routeObjs)

\* New
Init ==
    /\ routers = <<[prefix |-> <<>>, conditions |-> RouterRef(1), middleware |-> <<>>,
                     routeByName |-> RegistryRef(1)]>>
    /\ routeObjs = <<>>
    /\ conds = [k \in {RouterRef(1)} |-> EmptyMap]
    /\ routes = EmptyMap
    /\ routeByName = [k \in {RegistryRef(1)} |-> EmptyMap]
    /\ handlers = EmptyMap
    /\ registerCalls = EmptyMap
    /\ notFound = <<DefaultNotFound>>
    /\ createdWith = <<>>
    /\ nameCalls = <<>>
    /\ prefixCalls = << <<>> >>
    /\ calls = 0
    /\ last = Returned

\* A clone that gets a name -> Route map of its own, a copy of the source's.
routerCloneOwnRegistry(s) ==
    LET new == Len(routers) + 1
        c == conditionsClone(conds, routers[s].conditions, RouterRef(new))
    IN  [router |-> [prefix |-> routers[s].prefix,
                     conditions |-> c.ref,
                     middleware |-> middlewareClone(routers[s].middleware),
                     routeByName |-> RegistryRef(new)],
         conds |-> c.heap,
         routeByName |-> [x \in DOMAIN routeByName \cup {RegistryRef(new)} |->
                            IF x = RegistryRef(new)
                            THEN routeByName[routers[s].routeByName]
                            ELSE routeByName[x]]]

\* Router.clone: the new Router (handle Len(routers) + 1) and the heaps of
\* conditions maps and of name -> Route maps after the call; the clone
\* takes the source's routeByName reference, and routes and r are shared.
routerClone(s) ==
    LET new == Len(routers) + 1
        c == conditionsClone(conds, routers[s].conditions, RouterRef(new))
    IN  [router |-> [prefix |-> routers[s].prefix,
                     conditions |-> c.ref,
                     middleware |-> middlewareClone(routers[s].middleware),
                     routeByName |-> routers[s].routeByName],
         conds |-> c.heap,
         routeByName |-> routeByName]

\* Router.Group: f is handed the clone, on which it may call anything.
Group(s) ==
    /\ LET c == routerClone(s)
       IN  /\ routers' = Append(routers, c.router)
           /\ conds' = c.conds
           /\ routeByName' = c.routeByName
    /\ prefixCalls' = Append(prefixCalls, prefixCalls[s])
    /\ last' = Returned
    /\ UNCHANGED <<routeObjs, routes, handlers, registerCalls,
                   notFound, createdWith, nameCalls>>

\* A Prefix that sets the path on the parent as well as on the clone.
PrefixOnParent(s, path) ==
    /\ UniqueNames(routers[s].prefix \o path)
    /\ LET c == routerClone(s)
           sub == [c.router EXCEPT !.prefix = routers[s].prefix \o path]
       IN  /\ routers' = Append([routers EXCEPT ![s].prefix = @ \o path], sub)
           /\ conds' = c.conds
           /\ routeByName' = c.routeByName
    /\ prefixCalls' = Append(prefixCalls, Append(prefixCalls[s], path))
    /\ last' = Returned
    /\ UNCHANGED <<routeObjs, routes, handlers, registerCalls,
                   notFound, createdWith, nameCalls>>

\* Router.Prefix
Prefix(s, path) ==
    /\ UniqueNames(routers[s].prefix \o path)
    /\ LET c == routerClone(s)
           sub == [c.router EXCEPT !.prefix = routers[s].prefix \o path]
       IN  /\ routers' = Append(routers, sub)
           /\ conds' = c.conds
           /\ routeByName' = c.routeByName
    /\ prefixCalls' = Append(prefixCalls, Append(prefixCalls[s], path))
    /\ last' = Returned
    /\ UNCHANGED <<routeObjs, routes, handlers, registerCalls,
                   notFound, createdWith, nameCalls>>

\* A Use that also composes its functions into the handlers already
\* registered for the keys its Router claimed.
UseRewraps(s, middleware) ==
    /\ routers' = [routers EXCEPT ![s].middleware = @ \o middleware]
    /\ handlers' = [k \in DOMAIN handlers |->
                       IF routeObjs[routes[k][1]].router = s
                       THEN wrap(routers[s].middleware \o middleware, <<Adapter>>)
                       ELSE handlers[k]]
    /\ last' = Returned
    /\ UNCHANGED <<routeObjs, conds, routes, routeByName,
                   registerCalls, notFound, createdWith, nameCalls, prefixCalls>>

\* Router.Use
Use(s, middleware) ==
    /\ routers' = [routers EXCEPT ![s].middleware = @ \o middleware]
    /\ last' = Returned
    /\ UNCHANGED <<routeObjs, conds, routes, routeByName, handlers,
                   registerCalls, notFound, createdWith, nameCalls, prefixCalls>>

\* Router.Where and Router.WhereFunc: the parameter is looked up in the
\* prefix; an unknown name panics and nothing is changed.
RouterWhere(s, param, matchFunc) ==
    LET i == IndexOf(paramNames(routers[s].prefix), param)
    IN  /\ IF i < 0
           THEN /\ last' = Panic
                /\ UNCHANGED conds
           ELSE /\ conds' = [conds EXCEPT ![routers[s].conditions] = Put(@, i, matchFunc)]
                /\ last' = Returned
        /\ UNCHANGED <<routers, routeObjs, routes, routeByName, handlers,
                       registerCalls, notFound, createdWith, nameCalls, prefixCalls>>

\* An adapter registered without the Router's middleware.
newHandlerBare(s) == <<Adapter>>

\* Router.newHandler: the adapter of a key, wrapped in the middleware the
\* Router has when the key is first claimed.
newHandler(s) == wrap(routers[s].middleware, <<Adapter>>)

\* An addRoute that registers a handler at every call.
RECURSIVE addRouteAlways(_, _, _, _, _)
addRouteAlways(t, s, route, p, methods) ==
    IF methods = <<>> THEN t
    ELSE LET k == <<methods[1], p>>
             a == IF k \in DOMAIN t.routes THEN t.routes[k] ELSE <<>>
             n == IF k \in DOMAIN t.registerCalls THEN t.registerCalls[k] ELSE 0
         IN  addRouteAlways(
                 [routes |-> Put(t.routes, k, Append(a, route)),
                  handlers |-> Put(t.handlers, k, newHandler(s)),
                  registerCalls |-> Put(t.registerCalls, k, n + 1)],
                 s, route, p, Drop(methods, 2))

\* An addRoute that puts the route at the front of the key's list.
RECURSIVE addRouteInFront(_, _, _, _, _)
addRouteInFront(t, s, route, p, methods) ==
    IF methods = <<>> THEN t
    ELSE LET k == <<methods[1], p>>
             a == IF k \in DOMAIN t.routes THEN t.routes[k] ELSE <<>>
             n == IF k \in DOMAIN t.registerCalls THEN t.registerCalls[k] ELSE 0
             first == Len(a) = 0
         IN  addRouteInFront(
                 [routes |-> Put(t.routes, k, <<route>> \o a),
                  handlers |-> IF first THEN Put(t.handlers, k, newHandler(s))
                               ELSE t.handlers,
                  registerCalls |-> IF first THEN Put(t.registerCalls, k, n + 1)
                                    ELSE t.registerCalls],
                 s, route, p, Drop(methods, 2))

\* The loop of Router.addRoute over route.methods, with routeMap.get:
\* t holds routes, handlers and registerCalls; the key's list is made empty
\* when absent, a handler is registered when the list is empty, and the
\* route is appended.
RECURSIVE addRoute(_, _, _, _, _)
addRoute(t, s, route, p, methods) ==
    IF methods = <<>> THEN t
    ELSE LET k == <<methods[1], p>>
             a == IF k \in DOMAIN t.routes THEN t.routes[k] ELSE <<>>
             n == IF k \in DOMAIN t.registerCalls THEN t.registerCalls[k] ELSE 0
             first == Len(a) = 0
         IN  addRoute(
                 [routes |-> Put(t.routes, k, Append(a, route)),
                  handlers |-> IF first THEN Put(t.handlers, k, newHandler(s))
                               ELSE t.handlers,
                  registerCalls |-> IF first THEN Put(t.registerCalls, k, n + 1)
                                    ELSE t.registerCalls],
                 s, route, p, Drop(methods, 2))

\* Router.NewRoute
NewRoute(s, path, methods) ==
    /\ UniqueNames(routers[s].prefix \o path)
    /\ ValidPath(routers[s].prefix \o path)
    /\ LET new == Len(routeObjs) + 1
           pattern == routers[s].prefix \o path
           c == conditionsClone(conds, routers[s].conditions, RouteRef(new))
           route == [router |-> s,
                     methods |-> methods,
                     pattern |-> pattern,
                     paramNames |-> paramNames(pattern),
                     paramNamesMatch |-> paramNamesMatch(pattern),
                     conditions |-> c.ref,
                     handler |-> <<>>]
           t == addRoute([routes |-> routes, handlers |-> handlers,
                          registerCalls |-> registerCalls],
                         s, new, httpRouterString(pattern), methods)
       IN  /\ routeObjs' = Append(routeObjs, route)
           /\ conds' = c.heap
           /\ routes' = t.routes
           /\ handlers' = t.handlers
           /\ registerCalls' = t.registerCalls
           /\ createdWith' = Append(createdWith, routers[s].middleware)
           /\ last' = Returned
    /\ UNCHANGED <<routers, routeByName, notFound, nameCalls, prefixCalls>>

\* A Name that keeps the Route already registered under the name.
NameKeepsFirst(r, name) ==
    LET ref == routers[routeObjs[r].router].routeByName
    IN  /\ routeByName' = [routeByName EXCEPT ![ref] =
                              IF name \in DOMAIN @ THEN @ ELSE Put(@, name, r)]
        /\ nameCalls' = Append(nameCalls, [name |-> name, route |-> r])
        /\ last' = Returned
        /\ UNCHANGED <<routers, routeObjs, conds, routes, handlers, registerCalls,
                       notFound, createdWith, prefixCalls>>

\* Route.Name: route.router.routeByName[name] = route
Name(r, name) ==
    /\ routeByName' = [routeByName EXCEPT
                          ![routers[routeObjs[r].router].routeByName] = Put(@, name, r)]
    /\ nameCalls' = Append(nameCalls, [name |-> name, route |-> r])
    /\ last' = Returned
    /\ UNCHANGED <<routers, routeObjs, conds, routes, handlers, registerCalls,
                   notFound, createdWith, prefixCalls>>

\* A Route.Where that writes into the conditions map of the owning scope.
RouteWhereOnScope(r, param, matchFunc) ==
    LET i == IndexOf(routeObjs[r].paramNames, param)
    IN  /\ IF i < 0
           THEN /\ last' = Panic
                /\ UNCHANGED conds
           ELSE /\ conds' = [conds EXCEPT
                               ![routers[routeObjs[r].router].conditions] = Put(@, i, matchFunc)]
                /\ last' = Returned
        /\ UNCHANGED <<routers, routeObjs, routes, routeByName, handlers,
                       registerCalls, notFound, createdWith, nameCalls, prefixCalls>>

\* A Route.Where that counts the index from the Route's own path, after the
\* placeholders of the prefix.
RouteWhereOwnIndex(r, param, matchFunc) ==
    LET i == IndexOf(routeObjs[r].paramNames, param)
        own == i - Len(paramNames(routers[routeObjs[r].router].prefix))
    IN  /\ IF i < 0
           THEN /\ last' = Panic
                /\ UNCHANGED conds
           ELSE /\ conds' = [conds EXCEPT ![routeObjs[r].conditions] =
                                 Put(@, IF own < 0 THEN i ELSE own, matchFunc)]
                /\ last' = Returned
        /\ UNCHANGED <<routers, routeObjs, routes, routeByName, handlers,
                       registerCalls, notFound, createdWith, nameCalls, prefixCalls>>

\* Route.Where and Route.WhereFunc
RouteWhere(r, param, matchFunc) ==
    LET i == IndexOf(routeObjs[r].paramNames, param)
    IN  /\ IF i < 0
           THEN /\ last' = Panic
                /\ UNCHANGED conds
           ELSE /\ conds' = [conds EXCEPT ![routeObjs[r].conditions] = Put(@, i, matchFunc)]
                /\ last' = Returned
        /\ UNCHANGED <<routers, routeObjs, routes, routeByName, handlers,
                       registerCalls, notFound, createdWith, nameCalls, prefixCalls>>

\* Route.Handle and Route.HandleFunc
Handle(r, handler) ==
    /\ routeObjs' = [routeObjs EXCEPT ![r].handler = <<handler>>]
    /\ last' = Returned
    /\ UNCHANGED <<routers, conds, routes, routeByName, handlers,
                   registerCalls, notFound, createdWith, nameCalls, prefixCalls>>

\* A HandleNotFound that stores the handler as it is given.
HandleNotFoundBare(s, handler) ==
    /\ notFound' = <<handler>>
    /\ last' = [op |-> "HandleNotFound", panic |-> FALSE, scope |-> s,
                handler |-> handler]
    /\ UNCHANGED <<routers, routeObjs, conds, routes, routeByName, handlers,
                   registerCalls, createdWith, nameCalls, prefixCalls>>

\* Router.HandleNotFound: the wrapped handler is stored in the matcher all
\* scopes share (router.r.NotFound).
HandleNotFound(s, handler) ==
    /\ notFound' = wrap(routers[s].middleware, <<handler>>)
    /\ last' = [op |-> "HandleNotFound", panic |-> FALSE, scope |-> s,
                handler |-> handler]
    /\ UNCHANGED <<routers, routeObjs, conds, routes, routeByName, handlers,
                   registerCalls, createdWith, nameCalls, prefixCalls>>

\* -------------------------------------------------------------- dispatch

\* The number of values the external matcher captures for a registered
\* pattern: one for each ':' or '*' marker.
CountParams(p) == Cardinality({i \in 1..Len(p) : p[i] \in {":", "*"}})

NoRoute == 0
Panicked == -1

\* A scan that takes the last acceptable candidate instead of the first.
RECURSIVE matchLast(_, _, _)
matchLast(list, params, i) ==
    LET j == Len(list) + 1 - i
    IN  IF i > Len(list) THEN {NoRoute}
        ELSE IF routeObjs[list[j]].handler # <<>>
                /\ "true" \in conditionsMatch(conds[routeObjs[list[j]].conditions], params)
             THEN {list[j]}
             ELSE matchLast(list, params, i + 1)

\* A scan that does not skip the candidates without a handler.
RECURSIVE matchUnhandled(_, _, _)
matchUnhandled(list, params, i) ==
    IF i > Len(list) THEN {NoRoute}
    ELSE IF "true" \in conditionsMatch(conds[routeObjs[list[i]].conditions], params)
         THEN {list[i]}
         ELSE matchUnhandled(list, params, i + 1)

\* routeList.match from candidate i on: the Routes it may return, NoRoute
\* for nil, Panicked when conditions.match panics.
RECURSIVE routeListMatch(_, _, _)
routeListMatch(list, params, i) ==
    IF i > Len(list) THEN {NoRoute}
    ELSE IF routeObjs[list[i]].handler = <<>>
         THEN routeListMatch(list, params, i + 1)
         ELSE LET o == conditionsMatch(conds[routeObjs[list[i]].conditions], params)
              IN  (IF "true" \in o THEN {list[i]} ELSE {})
                  \cup (IF "panic" \in o THEN {Panicked} ELSE {})
                  \cup (IF "false" \in o
                        THEN routeListMatch(list, params, i + 1) ELSE {})

\* Parameters that keep the external matcher's positional keys ("0", "1", ...)
\* instead of the Route's names.
namedParamsPositional(r, params) ==
    [i \in 1..Len(params) |-> [Key |-> Itoa(i - 1), Value |-> params[i]]]

\* Route.namedParams of Route r (the index into paramNames panics when there
\* are more values than names; Dispatch decides that case before it asks).
namedParams(r, params) ==
    [i \in 1..Len(params) |->
        [Key |-> routeObjs[r].paramNames[i], Value |-> params[i]]]

\* The handler function of Router.newHandler for key k and the raw captured
\* values: what the request runs after the adapter's middleware. trace
\* lists the handlers invoked, in order; params is what toRequest attaches.
Dispatch(k, raw) ==
    LET params == [i \in 1..Len(raw) |-> Trim(raw[i])]
    IN  {IF m = Panicked
         THEN [outcome |-> "panic", route |-> NoRoute, trace |-> <<>>, params |-> <<>>]
         ELSE IF m = NoRoute
         THEN [outcome |-> "notfound", route |-> NoRoute, trace |-> notFound,
               params |-> <<>>]
         ELSE IF Len(params) > Len(routeObjs[m].paramNames)
         THEN [outcome |-> "panic", route |-> m, trace |-> <<>>, params |-> <<>>]
         ELSE [outcome |-> "route", route |-> m, trace |-> routeObjs[m].handler,
               params |-> namedParams(m, params)]
         : m \in routeListMatch(routes[k], params, 1)}

\* Router.ServeHTTP for a request the external matcher resolves to the
\* registered key k with the captured values raw: the registered handler
\* runs, its middleware layers first, then the adapter.
Request(k, raw) ==
    /\ \E d \in Dispatch(k, raw) :
          last' = [op |-> "Request", key |-> k, raw |-> raw,
                   outcome |-> d.outcome, route |-> d.route,
                   trace |-> handlers[k] \o d.trace, params |-> d.params]
    /\ UNCHANGED <<routers, routeObjs, conds, routes, routeByName, handlers,
                   registerCalls, notFound, createdWith, nameCalls, prefixCalls>>

\* -------------------------------------------------------------------- Url

\* Values handed to Url are Go interface values: ints and strings.
IntValue(n) == [isInt |-> TRUE, i |-> n, s |-> <<>>]
StrValue(str) == [isInt |-> FALSE, i |-> 0, s |-> str]

\* fmt.Sprint
Sprint(v) == IF v.isInt THEN Itoa(v.i) ELSE v.s

NoError == [kind |-> "nil", s |-> <<>>, nParams |-> 0, nMatch |-> 0, name |-> <<>>]

\* A loop that hands back the URL built so far when a value is refused.
RECURSIVE UrlLoopPartial(_, _, _, _)
UrlLoopPartial(r, params, u, i) ==
    IF i > Len(params) THEN [u |-> u, err |-> NoError]
    ELSE LET str == Sprint(params[i])
             c == conds[routeObjs[r].conditions]
             nMatch == Len(routeObjs[r].paramNamesMatch)
         IN  IF (i - 1) \in DOMAIN c /\ ~Accepts(c[i - 1], str)
             THEN [u |-> u,
                   err |-> [NoError EXCEPT !.kind = "ErrInvalidParameter", !.s = str]]
             ELSE IF i - 1 < nMatch
                  THEN UrlLoopPartial(r, params,
                               ReplaceAll(u, routeObjs[r].paramNamesMatch[i][1], str),
                               i + 1)
                  ELSE UrlLoopPartial(r, params, u \o <<"/">> \o str, i + 1)

\* The loop of Route.Url from the value of 0-based index i - 1 on.
RECURSIVE UrlLoop(_, _, _, _)
UrlLoop(r, params, u, i) ==
    IF i > Len(params) THEN [u |-> u, err |-> NoError]
    ELSE LET str == Sprint(params[i])
             c == conds[routeObjs[r].conditions]
             nMatch == Len(routeObjs[r].paramNamesMatch)
         IN  IF (i - 1) \in DOMAIN c /\ ~Accepts(c[i - 1], str)
             THEN [u |-> <<>>,
                   err |-> [NoError EXCEPT !.kind = "ErrInvalidParameter", !.s = str]]
             ELSE IF i - 1 < nMatch
                  THEN UrlLoop(r, params,
                               ReplaceAll(u, routeObjs[r].paramNamesMatch[i][1], str),
                               i + 1)
                  ELSE UrlLoop(r, params, u \o <<"/">> \o str, i + 1)

\* A Url that evaluates the predicates before it counts the values.
RouteUrlPredicatesFirst(r, params) ==
    LET nParams == Len(params)
        nMatch == Len(routeObjs[r].paramNamesMatch)
        res == UrlLoop(r, params, routeObjs[r].pattern, 1)
    IN  IF res.err.kind = "ErrInvalidParameter" THEN res
        ELSE IF nParams < nMatch
        THEN [u |-> <<>>,
              err |-> [NoError EXCEPT !.kind = "ErrNotEnoughParameters",
                                      !.nParams = nParams, !.nMatch = nMatch]]
        ELSE res

\* Route.Url: the URL and the error it returns.
RouteUrl(r, params) ==
    LET nParams == Len(params)
        nMatch == Len(routeObjs[r].paramNamesMatch)
    IN  IF nParams < nMatch
        THEN [u |-> <<>>,
              err |-> [NoError EXCEPT !.kind = "ErrNotEnoughParameters",
                                      !.nParams = nParams, !.nMatch = nMatch]]
        ELSE UrlLoop(r, params, routeObjs[r].pattern, 1)

\* A Router.Url that formats the Route's error into a new one (%v for %w),
\* which no longer is any of the package's errors.
RouterUrlFlattens(s, name, params) ==
    IF name \notin DOMAIN routeByName[routers[s].routeByName]
    THEN [u |-> <<>>, err |-> [NoError EXCEPT !.kind = "ErrRouteNotFound", !.name = name]]
    ELSE LET res == RouteUrl(routeByName[routers[s].routeByName][name], params)
         IN  IF res.err.kind # "nil"
             THEN [u |-> <<>>, err |-> [res.err EXCEPT !.kind = "error", !.name = name]]
             ELSE [u |-> res.u, err |-> NoError]

\* Router.Url: the URL and the error it returns.
RouterUrl(s, name, params) ==
    IF name \notin DOMAIN routeByName[routers[s].routeByName]
    THEN [u |-> <<>>, err |-> [NoError EXCEPT !.kind = "ErrRouteNotFound", !.name = name]]
    ELSE LET res == RouteUrl(routeByName[routers[s].routeByName][name], params)
         IN  IF res.err.kind # "nil"
             THEN [u |-> <<>>, err |-> [res.err EXCEPT !.name = name]]
             ELSE [u |-> res.u, err |-> NoError]

\* A call of Route.Url
Url(r, params) ==
    /\ last' = [op |-> "Route.Url", route |-> r, values |-> params,
                res |-> RouteUrl(r, params)]
    /\ UNCHANGED <<routers, routeObjs, conds, routes, routeByName, handlers,
                   registerCalls, notFound, createdWith, nameCalls, prefixCalls>>

\* A call of Router.Url, on any Router of the tree
UrlByName(s, name, params) ==
    /\ last' = [op |-> "Router.Url", router |-> s, name |-> name, values |-> params,
                res |-> RouterUrl(s, name, params)]
    /\ UNCHANGED <<routers, routeObjs, conds, routes, routeByName, handlers,
                   registerCalls, notFound, createdWith, nameCalls, prefixCalls>>

\* Values given to Url: an int, and a string that spells a placeholder.
\* Lists of them run to one value more than the Route has placeholders.
V_brace_id == <<"{", "i", "d", "}">>
UrlValues == {IntValue(111), StrValue(V_abc), StrValue(V_brace_id)}
UrlValueLists(nMatch) == UNION {[1..n -> UrlValues] : n \in 0..(nMatch + 1)}

\* ------------------------------------------------------------- round trip

\* The segments of a path or of a registered pattern, split at "/".
RECURSIVE SegmentsFrom(_, _, _)
SegmentsFrom(s, i, cur) ==
    IF i > Len(s) THEN <<cur>>
    ELSE IF s[i] = "/" THEN <<cur>> \o SegmentsFrom(s, i + 1, <<>>)
         ELSE SegmentsFrom(s, i + 1, Append(cur, s[i]))

Segments(s) == SegmentsFrom(s, 1, <<>>)

IsParamSegment(seg) == seg # <<>> /\ seg[1] = ":"

\* The external matcher's lookup of a request path against the registered
\* pattern p (":i" segments only): the captured raw substrings, one for each
\* placeholder in order, when the path matches; a placeholder takes one
\* non-empty segment, any other segment must be equal.
MatcherCaptures(p, path) ==
    LET ps == Segments(p)
        us == Segments(path)
    IN  IF /\ Len(ps) = Len(us)
           /\ \A i \in 1..Len(ps) :
                 IF IsParamSegment(ps[i]) THEN us[i] # <<>> ELSE us[i] = ps[i]
        THEN {[n \in 1..CountParams(p) |->
                 us[CHOOSE i \in 1..Len(ps) :
                       /\ IsParamSegment(ps[i])
                       /\ Cardinality({j \in 1..i : IsParamSegment(ps[j])}) = n]]}
        ELSE {}

\* A request for the URL that the last Route.Url call returned, sent with a
\* method of the Route: the external matcher looks the path up among the
\* registered keys and runs the registered handler, or finds no pattern.
RequestUrl ==
    /\ last.op = "Route.Url"
    /\ last.res.err.kind = "nil"
    /\ LET r == last.route
           url == last.res.u
           hits == {k \in DOMAIN handlers :
                      /\ \E i \in 1..Len(routeObjs[r].methods) : routeObjs[r].methods[i] = k[1]
                      /\ MatcherCaptures(k[2], url) # {}}
       IN  IF hits = {}
           THEN last' = [op |-> "RoundTrip", from |-> r, values |-> last.values,
                         url |-> url, outcome |-> "nomatch", route |-> NoRoute,
                         params |-> <<>>]
           ELSE \E k \in hits : \E raw \in MatcherCaptures(k[2], url) :
                    \E d \in Dispatch(k, raw) :
                        last' = [op |-> "RoundTrip", from |-> r, values |-> last.values,
                                 url |-> url, outcome |-> d.outcome, route |-> d.route,
                                 params |-> d.params]
    /\ UNCHANGED <<routers, routeObjs, conds, routes, routeByName, handlers,
                   registerCalls, notFound, createdWith, nameCalls, prefixCalls>>

\* Names given to Name and to Router.Url, and the value lists given to
\* Router.Url: none, one or two values.
RegisteredNames == {"n1", "n2"}
LookupNames == RegisteredNames \cup {"unknown.name"}
NameValues == {IntValue(111), StrValue(V_abc)}
NameValueLists == UNION {[1..n -> NameValues] : n \in 0..2}

\* ---------------------------------------------------------- specification

\* A registration call, within a budget of n calls.
Call(n) == calls < n /\ calls' = calls + 1

\* A request the external matcher resolves to a registered key.
Serve ==
    \E k \in DOMAIN handlers :
        \E raw \in [1..CountParams(k[2]) -> RawValues] :
            Request(k, raw) /\ UNCHANGED calls

\* Scopes, middleware, scope conditions and dispatch.
Next ==
    \/ \E s \in RouterIds : Call(MaxCalls) /\ Group(s)
    \/ \E s \in RouterIds : Call(MaxCalls) /\ Prefix(s, S_userId)
    \/ \E s \in RouterIds, m \in Middlewares : Call(MaxCalls) /\ Use(s, <<m>>)
    \/ \E s \in RouterIds : Call(MaxCalls) /\ RouterWhere(s, N_userId, "digits")
    \/ \E s \in RouterIds : Call(MaxCalls) /\ NewRoute(s, S_id, <<"GET">>)
    \/ \E r \in RouteIds, h \in Handlers : Call(MaxCalls) /\ Handle(r, h)
    \/ Serve

Spec == Init /\ [][Next]_vars

\* Routes of one router that share keys, their predicates and handlers.
NextMatch ==
    \/ \E path \in {S_id, S_name} : Call(MaxMatchCalls) /\ NewRoute(1, path, <<"GET">>)
    \/ \E r \in RouteIds, param \in {N_id, N_name}, f \in Preds :
          Call(MaxMatchCalls) /\ RouteWhere(r, param, f)
    \/ \E r \in RouteIds, h \in Handlers : Call(MaxMatchCalls) /\ Handle(r, h)
    \/ Serve

SpecMatch == Init /\ [][NextMatch]_vars

\* Keys registered from several scopes, with several methods.
NextRegister ==
    \/ \E s \in RouterIds : Call(MaxRegisterCalls) /\ Group(s)
    \/ \E s \in RouterIds, path \in PrefixPaths :
          Call(MaxRegisterCalls) /\ Prefix(s, path)
    \/ \E s \in RouterIds, path \in RoutePaths, methods \in MethodLists :
          Call(MaxRegisterCalls) /\ NewRoute(s, path, methods)

SpecRegister == Init /\ [][NextRegister]_vars

\* Named routes and URL generation.
NextUrl ==
    \/ \E s \in RouterIds : Call(MaxUrlCalls) /\ Prefix(s, S_userId)
    \/ \E s \in RouterIds : Call(MaxUrlCalls) /\ RouterWhere(s, N_userId, "digits")
    \/ \E s \in RouterIds, path \in {<<>>, S_id} :
          Call(MaxUrlCalls) /\ NewRoute(s, path, <<"GET">>)
    \/ \E r \in RouteIds : Call(MaxUrlCalls) /\ RouteWhere(r, N_id, "digits")
    \/ \E r \in RouteIds, name \in Names : Call(MaxUrlCalls) /\ Name(r, name)
    \/ \E r \in RouteIds :
          \E params \in UrlValueLists(Len(routeObjs[r].paramNamesMatch)) :
              Url(r, params) /\ UNCHANGED calls

SpecUrl == Init /\ [][NextUrl]_vars

\* Routes named from nested scopes and looked up by name from any scope.
NextNames ==
    \/ \E s \in RouterIds : Call(MaxNameCalls) /\ Group(s)
    \/ \E s \in RouterIds : Call(MaxNameCalls) /\ NewRoute(s, S_id, <<"GET">>)
    \/ \E r \in RouteIds : Call(MaxNameCalls) /\ RouteWhere(r, N_id, "digits")
    \/ \E r \in RouteIds, name \in RegisteredNames : Call(MaxNameCalls) /\ Name(r, name)
    \/ \E s \in RouterIds, name \in LookupNames, params \in NameValueLists :
          UrlByName(s, name, params) /\ UNCHANGED calls

SpecNames == Init /\ [][NextNames]_vars

\* Named routes with handlers that share a key: a URL is generated with one
\* value for each placeholder and then requested.
NextRoundTrip ==
    \/ \E path \in {S_id, S_name} :
          Call(MaxRoundTripCalls) /\ NewRoute(1, path, <<"GET">>)
    \/ \E r \in RouteIds, param \in {N_id, N_name} :
          Call(MaxRoundTripCalls) /\ RouteWhere(r, param, "digits")
    \/ \E r \in RouteIds, h \in Handlers : Call(MaxRoundTripCalls) /\ Handle(r, h)
    \/ \E r \in RouteIds, name \in Names : Call(MaxRoundTripCalls) /\ Name(r, name)
    \/ \E r \in RouteIds :
          \E params \in [1..Len(routeObjs[r].paramNamesMatch) -> NameValues] :
              Url(r, params) /\ UNCHANGED calls
    \/ RequestUrl /\ UNCHANGED calls

SpecRoundTrip == Init /\ [][NextRoundTrip]_vars

\* Predicates attached to scopes and to Routes, by known and unknown names.
NextWhere ==
    \/ \E s \in RouterIds : Call(MaxWhereCalls) /\ Prefix(s, S_userId)
    \/ \E s \in RouterIds : Call(MaxWhereCalls) /\ NewRoute(s, S_id, <<"GET">>)
    \/ \E s \in RouterIds, param \in ParamNames :
          Call(MaxWhereCalls) /\ RouterWhere(s, param, "digits")
    \/ \E r \in RouteIds, param \in ParamNames :
          Call(MaxWhereCalls) /\ RouteWhere(r, param, "digits")

SpecWhere == Init /\ [][NextWhere]_vars

\* The predicate the callers of the next specification attach to a name:
\* digits only for userId, lower-case letters for any other.
PredFor(name) == IF name = N_userId THEN "digits" ELSE "lower"

\* A prefix scope with a predicate on its placeholder, Routes with a
\* predicate on their own, requests and URLs.
NextIndex ==
    \/ \E s \in RouterIds : Call(MaxIndexCalls) /\ Prefix(s, S_userId)
    \/ \E s \in RouterIds :
          Call(MaxIndexCalls) /\ RouterWhere(s, N_userId, PredFor(N_userId))
    \/ \E s \in RouterIds : Call(MaxIndexCalls) /\ NewRoute(s, S_id, <<"GET">>)
    \/ \E r \in RouteIds, param \in {N_userId, N_id} :
          Call(MaxIndexCalls) /\ RouteWhere(r, param, PredFor(param))
    \/ \E r \in RouteIds, h \in Handlers : Call(MaxIndexCalls) /\ Handle(r, h)
    \/ Serve
    \/ \E r \in RouteIds :
          \E params \in [1..Len(routeObjs[r].paramNamesMatch) -> NameValues] :
              Url(r, params) /\ UNCHANGED calls

SpecIndex == Init /\ [][NextIndex]_vars

\* Conditions maps over the indices 0..2 and lists of up to three captured
\* values; a map is applied to lists that have a value at each of its indices,
\* as the lists of the external matcher have.
V_a1 == <<"a", "1">>
MatchValues == {V_111, V_abc, V_a1}
MatchIndices == 0..MaxMatchIndex
ConditionSets == UNION {[d -> Preds] : d \in SUBSET MatchIndices}
CapturedLists == UNION {[1..n -> MatchValues] : n \in 0..MaxCaptured}

\* A call of conditions.match
Match(c, params) ==
    /\ \E res \in conditionsMatch(c, params) :
          last' = [op |-> "match", c |-> c, params |-> params, res |-> res]
    /\ UNCHANGED <<routers, routeObjs, conds, routes, routeByName, handlers,
                   registerCalls, notFound, createdWith, nameCalls, prefixCalls>>

\* The router made by New, and the arguments of one call of match.
InitConditions ==
    /\ routers = <<[prefix |-> <<>>, conditions |-> RouterRef(1), middleware |-> <<>>,
                     routeByName |-> RegistryRef(1)]>>
    /\ routeObjs = <<>>
    /\ conds = [k \in {RouterRef(1)} |-> EmptyMap]
    /\ routes = EmptyMap
    /\ routeByName = [k \in {RegistryRef(1)} |-> EmptyMap]
    /\ handlers = EmptyMap
    /\ registerCalls = EmptyMap
    /\ notFound = <<DefaultNotFound>>
    /\ createdWith = <<>>
    /\ nameCalls = <<>>
    /\ prefixCalls = << <<>> >>
    /\ calls = 0
    /\ \E c \in ConditionSets, params \in CapturedLists :
          /\ \A k \in DOMAIN c : k < Len(params)
          /\ last = [op |-> "args", c |-> c, params |-> params]

NextConditions ==
    /\ last.op = "args"
    /\ Match(last.c, last.params)
    /\ UNCHANGED calls

SpecConditions == InitConditions /\ [][NextConditions]_vars

\* ------------------------------------------------------------------ claims

IsPrefix(a, b) == Len(a) <= Len(b) /\ SubSeq(b, 1, Len(a)) = a

IsRequest == last.op = "Request"

\* The captured values of the last request as the adapter sees them.
Captured == [i \in 1..Len(last.raw) |-> Trim(last.raw[i])]

\* Route r has a handler and each of its predicates accepts the captured
\* value at the predicate's index.
Accepting(r, values) ==
    /\ routeObjs[r].handler # <<>>
    /\ \A i \in DOMAIN conds[routeObjs[r].conditions] :
          /\ i + 1 <= Len(values)
          /\ Accepts(conds[routeObjs[r].conditions][i], values[i + 1])

\* The positions, in the candidate list of the last request's key, of the
\* Routes that could take the request.
Candidates == {i \in 1..Len(routes[last.key]) : Accepting(routes[last.key][i], Captured)}

Earliest(S) == CHOOSE i \in S : \A j \in S : i <= j

\* The middleware a request ran before it reached the adapter.
BeforeAdapter(trace) ==
    IF \E i \in 1..Len(trace) : trace[i] = Adapter
    THEN SubSeq(trace, 1, (CHOOSE i \in 1..Len(trace) :
                              trace[i] = Adapter /\ \A j \in 1..(i - 1) : trace[j] # Adapter) - 1)
    ELSE trace

\* What a request ran after the adapter.
AfterAdapter(trace) == Drop(trace, Len(BeforeAdapter(trace)) + 2)

\* C1: a request routed to a key is dispatched to the earliest-registered
\* Route of the key's list that has a handler and whose predicates accept
\* all captured values; a later Route that also accepts is never taken.
C1_EarliestAcceptingRouteWins ==
    (IsRequest /\ Candidates # {}) =>
        /\ last.outcome = "route"
        /\ last.route = routes[last.key][Earliest(Candidates)]

\* C1 witness: two different Routes of the key both accept the request and
\* the one registered first was taken.
C1_Witness ==
    /\ IsRequest
    /\ \E i, j \in Candidates :
          /\ i < j
          /\ routes[last.key][i] # routes[last.key][j]
          /\ conds[routeObjs[routes[last.key][i]].conditions] # EmptyMap
          /\ last.route = routes[last.key][i]

\* C3: the parameters bound on a match are the pairs (name i of the chosen
\* Route, captured value i) in position order; with GET /{id} (digits only)
\* before GET /{name}, /111 binds id=111 and /abc binds name=abc.
C3_BindsChosenRoutesNames ==
    /\ (IsRequest /\ last.outcome = "route") =>
          /\ Len(last.params) = Len(last.raw)
          /\ \A i \in 1..Len(last.raw) :
                /\ last.params[i].Key = routeObjs[last.route].paramNames[i]
                /\ last.params[i].Value = Captured[i]
    /\ (/\ IsRequest
        /\ Len(routes[last.key]) = 2
        /\ routeObjs[routes[last.key][1]].pattern = S_id
        /\ routeObjs[routes[last.key][2]].pattern = S_name
        /\ conds[routeObjs[routes[last.key][1]].conditions] = (0 :> "digits")
        /\ conds[routeObjs[routes[last.key][2]].conditions] = EmptyMap
        /\ routeObjs[routes[last.key][1]].handler # <<>>
        /\ routeObjs[routes[last.key][2]].handler # <<>>) =>
          /\ Captured = <<V_111>> => last.params = <<[Key |-> N_id, Value |-> V_111]>>
          /\ Captured = <<V_abc>> => last.params = <<[Key |-> N_name, Value |-> V_abc]>>

\* C3 witness: the second Route of the scenario took /abc and bound name=abc.
C3_Witness ==
    /\ IsRequest
    /\ Len(routes[last.key]) = 2
    /\ routeObjs[routes[last.key][1]].pattern = S_id
    /\ conds[routeObjs[routes[last.key][1]].conditions] = (0 :> "digits")
    /\ last.route = routes[last.key][2]
    /\ last.params = <<[Key |-> N_name, Value |-> V_abc]>>

\* C4: a Route without a handler is never selected: the scan goes on to the
\* next candidate, and when no candidate has a handler and accepts, the
\* request runs the not-found handler; no request runs an unset handler.
C4_UnsetHandlerNeverSelected ==
    IsRequest =>
        /\ last.outcome = "route" =>
              /\ routeObjs[last.route].handler # <<>>
              /\ AfterAdapter(last.trace) = routeObjs[last.route].handler
        /\ Candidates = {} =>
              /\ last.outcome = "notfound"
              /\ last.route = NoRoute
              /\ AfterAdapter(last.trace) = notFound
        /\ \A i \in 1..(Len(routes[last.key])) :
              (routeObjs[routes[last.key][i]].handler = <<>>
               /\ (\A j \in 1..(i - 1) : j \notin Candidates)
               /\ (\E j \in Candidates : j > i))
              => last.route = routes[last.key][Earliest(Candidates)]

\* C4 witness: the first candidate accepts the values but has no handler, and
\* the request went to the next candidate.
C4_Witness ==
    /\ IsRequest
    /\ Len(routes[last.key]) >= 2
    /\ routeObjs[routes[last.key][1]].handler = <<>>
    /\ conds[routeObjs[routes[last.key][1]].conditions] = EmptyMap
    /\ last.outcome = "route"
    /\ last.route = routes[last.key][2]

\* C2, as claimed: when the chosen Route R and the first Route of its key
\* were created in different scopes with different middleware chains, the
\* request runs exactly the chain R's scope had when R was created, not the
\* chain of the scope that created the key's first Route.
C2_RunsChosenRoutesChain ==
    (/\ IsRequest
     /\ last.outcome = "route"
     /\ routeObjs[last.route].router # routeObjs[routes[last.key][1]].router
     /\ createdWith[last.route] # createdWith[routes[last.key][1]]) =>
        BeforeAdapter(last.trace) = createdWith[last.route]

\* The middleware list the key of the last request was registered with: its
\* first Route's scope's list at that moment.
RegisteredWith(k) == createdWith[routes[k][1]]

\* C5: a request meets the middleware in the order of the list, index 0
\* first; a clone starts with its parent's list and Use only appends, so
\* inherited entries stay in front of a scope's own.
C5_RequestOrder ==
    IsRequest => BeforeAdapter(last.trace) = RegisteredWith(last.key)

C5_ListsGrowAtTheEnd ==
    \A s \in RouterIds :
        /\ (Group(s) \/ Prefix(s, S_userId)) =>
              routers'[Len(routers) + 1].middleware = routers[s].middleware
        /\ \A m \in Middlewares :
              Use(s, <<m>>) => routers'[s].middleware = routers[s].middleware \o <<m>>
        /\ IsPrefix(routers[s].middleware, routers'[s].middleware)

C5_MiddlewareInRegistrationOrder ==
    [](C5_RequestOrder) /\ [][C5_ListsGrowAtTheEnd]_vars

\* C5 witness: the root used A, its clone then used B, and a request to a
\* Route of the clone ran A, then B, then the adapter and the handler.
C5_Witness ==
    /\ IsRequest
    /\ last.outcome = "route"
    /\ routeObjs[last.route].router = 2
    /\ routers[1].middleware = <<"A">>
    /\ routers[2].middleware = <<"A", "B">>
    /\ last.trace = <<"A", "B", Adapter, "h">>

\* C6: when no candidate of the key accepts the captured values the request
\* ends in the not-found handler, after the middleware the registering scope
\* had (inherited entries included) has run.
C6_MiddlewareRunsBeforeNotFound ==
    (IsRequest /\ Candidates = {}) =>
        /\ last.outcome = "notfound"
        /\ last.trace = RegisteredWith(last.key) \o <<Adapter>> \o notFound

\* C6 witness: a Route with a handler, made in a prefix scope that inherited
\* A from the root, rejects the value; the request ran A and then not-found.
C6_Witness ==
    /\ IsRequest
    /\ last.outcome = "notfound"
    /\ routers[1].middleware = <<"A">>
    /\ \E i \in 1..Len(routes[last.key]) :
          /\ routeObjs[routes[last.key][i]].handler # <<>>
          /\ routeObjs[routes[last.key][i]].router # 1
          /\ conds[routeObjs[routes[last.key][i]].conditions] = (0 :> "digits")
    /\ last.trace = <<"A", Adapter, DefaultNotFound>>

\* What a scope owns: its prefix, its middleware list and the content of its
\* conditions map.
ScopeState(t) ==
    [prefix |-> routers[t].prefix,
     middleware |-> routers[t].middleware,
     conditions |-> conds[routers[t].conditions]]

\* C7: Use and Where / WhereFunc on one scope leave the prefix, middleware
\* and conditions of every other scope (parent, child or sibling) unchanged.
C7_ScopesAreIsolated ==
    [][\A s \in RouterIds :
          ((\E m \in Middlewares : Use(s, <<m>>)) \/ RouterWhere(s, N_userId, "digits"))
          => \A t \in RouterIds \ {s} : ScopeState(t)' = ScopeState(t)]_vars

\* C7 witness: of two sibling prefix scopes one got a predicate and a
\* middleware, then the parent got another middleware; each has only its own.
C7_Witness ==
    /\ Len(routers) = 3
    /\ routers[2].prefix = S_userId
    /\ routers[3].prefix = S_userId
    /\ ScopeState(1) = [prefix |-> <<>>, middleware |-> <<"B">>, conditions |-> EmptyMap]
    /\ ScopeState(2) = [prefix |-> S_userId, middleware |-> <<"A">>,
                        conditions |-> (0 :> "digits")]
    /\ ScopeState(3) = [prefix |-> S_userId, middleware |-> <<>>, conditions |-> EmptyMap]

\* The content of a Route's conditions map.
RouteConditions(r) == conds[routeObjs[r].conditions]

\* C8: a Route's conditions are a copy of its scope's conditions taken by
\* NewRoute: they equal the scope's at that moment, and a later Where /
\* WhereFunc on a scope changes no Route's conditions.
C8_RouteConditionsAreSnapshot ==
    [][\A s \in RouterIds :
          /\ RouterWhere(s, N_userId, "digits") =>
                \A r \in RouteIds : RouteConditions(r)' = RouteConditions(r)
          /\ NewRoute(s, S_id, <<"GET">>) =>
                conds'[routeObjs'[Len(routeObjs) + 1].conditions]
                    = conds[routers[s].conditions]]_vars

\* C8 witness: the scope got its digits-only predicate after the Route was
\* made, and the Route still took a request whose value is not digits.
C8_Witness ==
    /\ IsRequest
    /\ last.outcome = "route"
    /\ conds[routers[routeObjs[last.route].router].conditions] = (0 :> "digits")
    /\ RouteConditions(last.route) = EmptyMap
    /\ Captured[1] = V_abc

\* C9: a key is registered with the external matcher exactly once when its
\* candidate list is non-empty and never otherwise; a Route that joins a key
\* is appended and the key's registered handler stays.
C9_OncePerKey ==
    \A k \in DOMAIN routes \cup DOMAIN registerCalls :
        IF k \in DOMAIN routes /\ Len(routes[k]) > 0
        THEN k \in DOMAIN registerCalls /\ registerCalls[k] = 1
        ELSE k \notin DOMAIN registerCalls

C9_JoinAppends ==
    \A k \in DOMAIN routes :
        /\ k \in DOMAIN routes'
        /\ IsPrefix(routes[k], routes'[k])
        /\ Len(routes[k]) > 0 => handlers'[k] = handlers[k]

C9_RegisteredOncePerKey ==
    [](C9_OncePerKey) /\ [][C9_JoinAppends]_vars

\* C9 witness: a key holds Routes made by two scopes, one of them listed
\* twice by a call that named its method twice, and was registered once.
C9_Witness ==
    \E k \in DOMAIN routes :
        /\ registerCalls[k] = 1
        /\ \E i, j, l \in 1..Len(routes[k]) :
              /\ i < j
              /\ routes[k][i] = routes[k][j]
              /\ routeObjs[routes[k][l]].router # routeObjs[routes[k][i]].router

\* The template with placeholder n replaced by string n, in one pass from
\* position i on.
RECURSIVE SubstituteFrom(_, _, _, _)
SubstituteFrom(p, strs, i, n) ==
    IF i > Len(p) THEN <<>>
    ELSE LET m == MatchAt(p, i)
         IN  IF m # <<>>
             THEN strs[n] \o SubstituteFrom(p, strs, i + Len(m[1]), n + 1)
             ELSE <<p[i]>> \o SubstituteFrom(p, strs, i + 1, n)

\* "/" + string for each string from index i on.
RECURSIVE AppendedFrom(_, _)
AppendedFrom(strs, i) ==
    IF i > Len(strs) THEN <<>>
    ELSE <<"/">> \o strs[i] \o AppendedFrom(strs, i + 1)

IsRouteUrl == last.op = "Route.Url"

\* The string forms of the values of the last Url call.
UrlStrings == [i \in 1..Len(last.values) |-> Sprint(last.values[i])]

\* The last Url call got a value for every placeholder, and each value that
\* has a predicate at its index is accepted by it.
UrlValuesAccepted ==
    /\ Len(last.values) >= Len(routeObjs[last.route].paramNamesMatch)
    /\ \A i \in DOMAIN RouteConditions(last.route) :
          i + 1 <= Len(last.values) =>
              Accepts(RouteConditions(last.route)[i], UrlStrings[i + 1])

\* C10, as claimed: Url with accepted values returns the template with
\* placeholder i replaced by the string form of value i, followed by "/" and
\* the value for each extra value.
C10_UrlSubstitutesByPosition ==
    (IsRouteUrl /\ UrlValuesAccepted) =>
        /\ last.res.err = NoError
        /\ last.res.u =
              SubstituteFrom(routeObjs[last.route].pattern, UrlStrings, 1, 1)
              \o AppendedFrom(UrlStrings, Len(routeObjs[last.route].paramNamesMatch) + 1)

\* The positions of the values of the last Url call that the predicate
\* registered at their index refuses.
UrlFailing ==
    {i \in 1..Len(last.values) :
        /\ (i - 1) \in DOMAIN RouteConditions(last.route)
        /\ ~Accepts(RouteConditions(last.route)[i - 1], UrlStrings[i])}

UrlEnoughValues == Len(last.values) >= Len(routeObjs[last.route].paramNamesMatch)

\* C11, as claimed: whenever a value supplied to Url fails the predicate at
\* its index, Url returns an invalid-parameter error carrying an offending
\* string and the empty URL.
C11_AnyRefusedValueIsInvalidParameter ==
    (IsRouteUrl /\ UrlFailing # {}) =>
        /\ last.res.err.kind = "ErrInvalidParameter"
        /\ last.res.err.s \in {UrlStrings[i] : i \in UrlFailing}
        /\ last.res.u = <<>>

C11_InvalidParameter ==
    (IsRouteUrl /\ UrlEnoughValues /\ UrlFailing # {}) =>
        /\ last.res.err.kind = "ErrInvalidParameter"
        /\ last.res.err.s = UrlStrings[Earliest(UrlFailing)]
        /\ last.res.u = <<>>

C11_UrlChangesNothing ==
    (last' # last /\ last'.op = "Route.Url") =>
        UNCHANGED <<routers, routeObjs, conds, routes, routeByName, handlers,
                    registerCalls, notFound>>

\* C11, amended: when Url is given at least as many values as the Route has
\* placeholders and a value fails the predicate at its index, Url returns an
\* invalid-parameter error carrying the first such string and the empty
\* URL, also when earlier values were accepted and substituted; the call
\* leaves the Routes and the registries unchanged.
C11_InvalidParameterNoPartialUrl ==
    [](C11_InvalidParameter) /\ [][C11_UrlChangesNothing]_vars

\* A two-placeholder Route whose first value was accepted and substituted
\* and whose second value was refused.
C11_Witness ==
    /\ IsRouteUrl
    /\ Len(routeObjs[last.route].paramNamesMatch) = 2
    /\ Len(last.values) = 2
    /\ UrlFailing = {2}
    /\ last.res.err.kind = "ErrInvalidParameter"

\* C12: Url with fewer values than the Route has placeholders returns a
\* not-enough-parameters error carrying both counts and the empty URL,
\* whether or not a supplied value would fail its predicate.
C12_NotEnoughParametersFirst ==
    (IsRouteUrl /\ ~UrlEnoughValues) =>
        /\ last.res.err.kind = "ErrNotEnoughParameters"
        /\ last.res.err.nParams = Len(last.values)
        /\ last.res.err.nMatch = Len(routeObjs[last.route].paramNamesMatch)
        /\ last.res.u = <<>>

\* Too few values, one of which its predicate refuses.
C12_Witness ==
    /\ IsRouteUrl
    /\ ~UrlEnoughValues
    /\ UrlFailing # {}
    /\ last.res.err.kind = "ErrNotEnoughParameters"

IsRouterUrl == last.op = "Router.Url"

\* The name -> Route map that Router s holds.
Registry(s) == routeByName[routers[s].routeByName]

\* What the Route registered under the name of the last Router.Url call
\* returns for the values of the call.
NamedRouteUrl == RouteUrl(Registry(last.router)[last.name], last.values)

C13_NotFoundNamesTheName ==
    (IsRouterUrl /\ last.name \notin DOMAIN Registry(last.router)) =>
        /\ last.res.err = [NoError EXCEPT !.kind = "ErrRouteNotFound", !.name = last.name]
        /\ last.res.u = <<>>

C13_RouteErrorPassedOn ==
    (IsRouterUrl /\ last.name \in DOMAIN Registry(last.router)
                 /\ NamedRouteUrl.err # NoError) =>
        /\ last.res.err = [NamedRouteUrl.err EXCEPT !.name = last.name]
        /\ last.res.u = <<>>

C13_LookupLeavesRegistry ==
    (last' # last /\ last'.op = "Router.Url") => UNCHANGED <<routeByName, routeObjs>>

\* C13: Router.Url for a name absent from the registry returns a
\* route-not-found error naming the name and the empty URL, and adds nothing
\* to the registry; an error of a found Route's Url is passed on with its
\* kind and its context, prefixed with the route name.
C13_RouteNotFoundAndErrorsPassedOn ==
    [](C13_NotFoundNamesTheName /\ C13_RouteErrorPassedOn)
    /\ [][C13_LookupLeavesRegistry]_vars

\* A lookup of a registered name whose Route refused the value.
C13_Witness ==
    /\ IsRouterUrl
    /\ last.name \in DOMAIN Registry(last.router)
    /\ last.res.err.kind = "ErrInvalidParameter"
    /\ last.res.err.name = last.name

\* A lookup of a name nobody registered, while other names are registered.
C13_WitnessAbsent ==
    /\ IsRouterUrl
    /\ last.name = "unknown.name"
    /\ Registry(last.router) # EmptyMap
    /\ last.res.err.kind = "ErrRouteNotFound"

\* The positions in the history of Name calls that gave name n, and the
\* Route of the latest of them.
NamedAt(n) == {i \in 1..Len(nameCalls) : nameCalls[i].name = n}
LastNamed(n) == nameCalls[CHOOSE i \in NamedAt(n) : \A j \in NamedAt(n) : j <= i].route

\* C14: the registry is one mapping for the whole scope tree: on every
\* scope a name resolves to the Route most recently given that name, from
\* whatever scope's Route the Name call was made, and Router.Url on any
\* scope returns what that Route's Url returns.
C14_SharedRegistryLastWriterWins ==
    /\ \A s \in RouterIds, n \in LookupNames :
          IF NamedAt(n) = {}
          THEN n \notin DOMAIN Registry(s)
          ELSE n \in DOMAIN Registry(s) /\ Registry(s)[n] = LastNamed(n)
    /\ (IsRouterUrl /\ NamedAt(last.name) # {}) =>
          LET res == RouteUrl(LastNamed(last.name), last.values)
          IN  /\ last.res.u = res.u
              /\ last.res.err.kind = res.err.kind

\* The root resolved a name to a Route of a nested scope, which took the
\* name over from a Route of another scope.
C14_Witness ==
    /\ IsRouterUrl
    /\ last.router = 1
    /\ last.res.err.kind = "nil"
    /\ Cardinality(NamedAt(last.name)) = 2
    /\ routeObjs[LastNamed(last.name)].router # 1
    /\ \E i \in NamedAt(last.name) : routeObjs[nameCalls[i].route].router = 1

IsRoundTrip == last.op = "RoundTrip"

\* The Route the last round trip started from is named, has a handler, got
\* one value for each placeholder, and each of its predicates accepts the
\* value at its index.
RoundTripPremise ==
    /\ \E s \in RouterIds : \E n \in DOMAIN Registry(s) : Registry(s)[n] = last.from
    /\ routeObjs[last.from].handler # <<>>
    /\ Len(last.values) = Len(routeObjs[last.from].paramNamesMatch)
    /\ \A i \in DOMAIN RouteConditions(last.from) :
          Accepts(RouteConditions(last.from)[i], Sprint(last.values[i + 1]))

\* C15, as claimed: the request for the URL generated from accepted values
\* binds those values to the names of the Route the URL was generated from.
C15_UrlThenDispatchBindsValues ==
    (IsRoundTrip /\ RoundTripPremise) =>
        /\ last.outcome = "route"
        /\ last.params = [i \in 1..Len(last.values) |->
                            [Key |-> routeObjs[last.from].paramNames[i],
                             Value |-> Sprint(last.values[i])]]

\* A round trip that does return the values it started from.
C15_RoundTripReached ==
    /\ IsRoundTrip
    /\ RoundTripPremise
    /\ last.outcome = "route"
    /\ last.route = last.from

\* The 0-based positions at which a template holds a placeholder of the
\* given name.
PlaceholderPositions(template, name) ==
    {i \in 0..(Len(paramNames(template)) - 1) : paramNames(template)[i + 1] = name}

\* The call did nothing but panic.
AbortedUnchanged ==
    /\ last' = Panic
    /\ UNCHANGED <<routers, routeObjs, conds, routes, routeByName, handlers,
                   registerCalls, notFound>>

\* The call returned and the map at reference ref got the predicate at each
\* of the positions; every other conditions map is as it was.
OnlyMapChanged(ref, positions, matchFunc) ==
    /\ last' = Returned
    /\ DOMAIN conds' = DOMAIN conds
    /\ \A x \in DOMAIN conds : x # ref => conds'[x] = conds[x]
    /\ DOMAIN conds'[ref] = DOMAIN conds[ref] \cup positions
    /\ \A i \in DOMAIN conds'[ref] :
          conds'[ref][i] = IF i \in positions THEN matchFunc ELSE conds[ref][i]
    /\ UNCHANGED <<routers, routeObjs, routes, routeByName, handlers,
                   registerCalls, notFound>>

C16_ScopeWhere ==
    \A s \in RouterIds, param \in ParamNames :
        RouterWhere(s, param, "digits") =>
            IF PlaceholderPositions(routers[s].prefix, param) = {}
            THEN AbortedUnchanged
            ELSE OnlyMapChanged(routers[s].conditions,
                                PlaceholderPositions(routers[s].prefix, param), "digits")

C16_RouteWhere ==
    \A r \in RouteIds, param \in ParamNames :
        RouteWhere(r, param, "digits") =>
            IF PlaceholderPositions(routeObjs[r].pattern, param) = {}
            THEN AbortedUnchanged
            ELSE OnlyMapChanged(routeObjs[r].conditions,
                                PlaceholderPositions(routeObjs[r].pattern, param), "digits")

\* C16: Where / WhereFunc with a name that is no placeholder of the scope's
\* prefix (on a scope) or of the Route's full pattern (on a Route) panics
\* and adds no predicate; with a known name it sets the predicate in the
\* receiver's own conditions map and changes nothing else.
C16_UnknownParameterPanics == [][C16_ScopeWhere /\ C16_RouteWhere]_vars

\* A call panicked on a scope whose prefix has a placeholder and whose Route
\* has a placeholder of its own, the scope having a predicate already.
C16_Witness ==
    /\ last = Panic
    /\ \E r \in RouteIds :
          /\ PlaceholderPositions(routeObjs[r].pattern, N_id) # {}
          /\ PlaceholderPositions(routers[routeObjs[r].router].prefix, N_id) = {}
          /\ PlaceholderPositions(routers[routeObjs[r].router].prefix, N_userId) # {}
          /\ conds[routers[routeObjs[r].router].conditions] # EmptyMap

\* The concatenation of a sequence of strings.
RECURSIVE Concat(_)
Concat(paths) == IF paths = <<>> THEN <<>> ELSE paths[1] \o Concat(Tail(paths))

\* Every scope's prefix is the concatenation of the paths of the Prefix
\* calls around it, outermost first; a Group adds nothing to it.
C17_PrefixIsEnclosingPaths ==
    \A s \in RouterIds : routers[s].prefix = Concat(prefixCalls[s])

\* NewRoute gives the Route the enclosing paths followed by its own path,
\* and no call changes the pattern of a Route or the prefix of a scope that
\* exists.
C17_PatternFixedAtNewRoute ==
    /\ \A s \in RouterIds, path \in RoutePaths, methods \in MethodLists :
          NewRoute(s, path, methods) =>
              routeObjs'[Len(routeObjs) + 1].pattern = Concat(prefixCalls[s]) \o path
    /\ \A r \in RouteIds : routeObjs'[r].pattern = routeObjs[r].pattern
    /\ \A s \in RouterIds : routers'[s].prefix = routers[s].prefix

\* C17: a Route's pattern is the concatenation of the paths of all
\* enclosing Prefix calls, outermost first, followed by the Route's own
\* path; Group leaves the prefix as it is, and a Prefix call leaves the
\* parent's prefix as it was.
C17_PatternIsPrefixesThenPath ==
    [](C17_PrefixIsEnclosingPaths) /\ [][C17_PatternFixedAtNewRoute]_vars

\* A Route made on the parent after a Prefix call on it: the Route does not
\* carry the child's path, while a Route made in the nested child of the
\* child carries both paths.
C17_Witness ==
    /\ Len(routers) >= 3
    /\ prefixCalls[3] = <<S_users, S_userId>>
    /\ \E r, later \in RouteIds :
          /\ routeObjs[r].router = 3
          /\ routeObjs[r].pattern = S_users \o S_userId \o S_id
          /\ later > r
          /\ routeObjs[later].router = 2
          /\ routeObjs[later].pattern = S_users \o S_id

\* The keys of a Route: each of its methods with its compiled pattern.
KeysOf(r) ==
    {<<routeObjs[r].methods[i], httpRouterString(routeObjs[r].pattern)>> :
        i \in 1..Len(routeObjs[r].methods)}

\* Each key's list holds Routes of that key only, in the order in which
\* they were made, and every Route is in the list of each of its keys.
C18_ListsInRegistrationOrder ==
    /\ \A k \in DOMAIN routes :
          /\ \A i \in 1..Len(routes[k]) : k \in KeysOf(routes[k][i])
          /\ \A i, j \in 1..Len(routes[k]) : i < j => routes[k][i] <= routes[k][j]
    /\ \A r \in RouteIds : \A k \in KeysOf(r) :
          k \in DOMAIN routes /\ \E i \in 1..Len(routes[k]) : routes[k][i] = r

\* A step keeps every list as the front of what it becomes, and what it
\* adds at the end is the Route made by the step.
C18_OnlyAppended ==
    \A k \in DOMAIN routes' :
        LET before == IF k \in DOMAIN routes THEN routes[k] ELSE <<>>
        IN  /\ IsPrefix(before, routes'[k])
            /\ \A i \in (Len(before) + 1)..Len(routes'[k]) :
                  /\ routes'[k][i] = Len(routeObjs) + 1
                  /\ Len(routeObjs') = Len(routeObjs) + 1

\* C18: NewRoute appends the new Route at the end of the list of each of
\* its keys and no call removes, replaces or reorders an entry: each list
\* is the Routes of its key in registration order, and each earlier state
\* of a list is the front of every later state.
C18_CandidateListsAppendOnly ==
    [](C18_ListsInRegistrationOrder)
    /\ [][C18_OnlyAppended /\ DOMAIN routes \subseteq DOMAIN routes']_vars

\* One Route is in the lists of two keys (two methods), and one of the
\* lists holds a Route made earlier in front of it.
C18_Witness ==
    \E r \in RouteIds : \E k1, k2 \in KeysOf(r) :
        /\ k1 # k2
        /\ Len(routes[k1]) >= 2
        /\ routes[k1][1] < r
        /\ routes[k1][Len(routes[k1])] = r
        /\ routes[k2][1] = r

\* A Route.Where step leaves the conditions of every scope and of every
\* other Route as they were, and a Route made by NewRoute starts from the
\* conditions its scope has, with nothing from the Routes made before it.
C19_OtherConditionsKept ==
    /\ \A r \in RouteIds, param \in ParamNames :
          RouteWhere(r, param, "digits") =>
              /\ \A other \in RouteIds \ {r} : RouteConditions(other)' = RouteConditions(other)
              /\ \A s \in RouterIds : ScopeState(s)' = ScopeState(s)
    /\ \A s \in RouterIds :
          NewRoute(s, S_id, <<"GET">>) =>
              conds'[routeObjs'[Len(routeObjs) + 1].conditions]
                  = ScopeState(s).conditions

\* C19: Route.Where / Route.WhereFunc changes the conditions of the Route it
\* is called on and no others: not those of the owning scope, of Routes made
\* from the same scope before or after, or of other Routes of the same key.
C19_RouteWhereIsLocal == [][C19_OtherConditionsKept]_vars

\* Three Routes of one scope and one key: the second got a predicate, the
\* first and the third, made after it, and the scope have none.
C19_Witness ==
    /\ Len(routeObjs) >= 3
    /\ \A r \in 1..3 : routeObjs[r].router = routeObjs[1].router
    /\ \A r \in 1..3 : KeysOf(r) = KeysOf(1)
    /\ RouteConditions(2) # EmptyMap
    /\ RouteConditions(1) = EmptyMap
    /\ RouteConditions(3) = EmptyMap
    /\ conds[routers[routeObjs[1].router].conditions] = EmptyMap

\* The handler registered for a key is the adapter behind the middleware
\* its first Route's scope had when that Route was made, and a request to
\* the key runs that handler first, whichever Route is chosen.
C20_HandlerIsFirstScopesChain ==
    /\ \A k \in DOMAIN handlers : handlers[k] = RegisteredWith(k) \o <<Adapter>>
    /\ IsRequest => IsPrefix(RegisteredWith(last.key) \o <<Adapter>>, last.trace)

\* A Use step changes no registered handler.
C20_UseKeepsHandlers ==
    \A s \in RouterIds, m \in Middlewares :
        Use(s, <<m>>) =>
            /\ DOMAIN handlers' = DOMAIN handlers
            /\ \A k \in DOMAIN handlers : handlers'[k] = handlers[k]

\* C20: the middleware that runs for a key is fixed when the key's adapter
\* is made, at the first NewRoute under the key; a later Use on any scope
\* does not change it, also not for the Routes that join the key later.
C20_MiddlewareFrozenAtFirstNewRoute ==
    [](C20_HandlerIsFirstScopesChain) /\ [][C20_UseKeepsHandlers]_vars

\* A request was taken by a Route that joined the key after its scope, the
\* one that claimed the key, used A: the request ran no middleware.
C20_Witness ==
    /\ IsRequest
    /\ last.outcome = "route"
    /\ last.route # routes[last.key][1]
    /\ routeObjs[last.route].router = routeObjs[routes[last.key][1]].router
    /\ RegisteredWith(last.key) = <<>>
    /\ createdWith[last.route] = <<"A">>
    /\ last.trace = <<Adapter, "h">>

\* Every predicate of a Route sits at the 0-based position that its
\* placeholder has in the Route's full pattern, prefix placeholders first.
C21_PredicateAtPatternPosition ==
    \A r \in RouteIds : \A i \in DOMAIN RouteConditions(r) :
        /\ i < Len(routeObjs[r].paramNames)
        /\ RouteConditions(r)[i] = PredFor(routeObjs[r].paramNames[i + 1])

\* A request is taken by a Route only with captured values that the
\* predicates attached to the placeholders of those positions accept.
C21_DispatchByPosition ==
    (IsRequest /\ last.outcome = "route") =>
        \A i \in 1..Len(last.params) :
            (i - 1) \in DOMAIN RouteConditions(last.route) =>
                Accepts(PredFor(last.params[i].Key), last.params[i].Value)

\* Url returns a URL only for values that the predicates attached to the
\* placeholders of their positions accept.
C21_UrlByPosition ==
    (IsRouteUrl /\ last.res.err.kind = "nil") =>
        \A i \in 1..Len(routeObjs[last.route].paramNames) :
            (i - 1) \in DOMAIN RouteConditions(last.route) =>
                Accepts(PredFor(routeObjs[last.route].paramNames[i]), UrlStrings[i])

\* C21: scope-level predicates on prefix placeholders and route-level
\* predicates on the Route's own placeholders are indexed in one 0-based
\* sequence over the Route's full pattern, at dispatch and in Url.
C21_OneIndexOverFullPattern ==
    C21_PredicateAtPatternPosition /\ C21_DispatchByPosition /\ C21_UrlByPosition

\* A Route under /{userId} with the scope's digits predicate and its own
\* letters predicate took a request with userId = 111 and id = abc.
C21_Witness ==
    /\ IsRequest
    /\ last.outcome = "route"
    /\ RouteConditions(last.route) = (0 :> "digits" @@ 1 :> "lower")
    /\ conds[routers[routeObjs[last.route].router].conditions] = (0 :> "digits")
    /\ last.params = <<[Key |-> N_userId, Value |-> V_111], [Key |-> N_id, Value |-> V_abc]>>

\* The same Route refused to build a URL from (abc, 111) and built one from
\* (111, abc).
C21_WitnessUrl ==
    /\ IsRouteUrl
    /\ RouteConditions(last.route) = (0 :> "digits" @@ 1 :> "lower")
    /\ last.values = <<IntValue(111), StrValue(V_abc)>>
    /\ last.res.err.kind = "nil"

IsMatch == last.op = "match"

\* C22: conditions.match returns true exactly when each index that has a
\* predicate has it accept the captured value at that index; an index with
\* no predicate accepts any value and the empty map accepts any list.
C22_MatchIffAllPredicatesAccept ==
    IsMatch =>
        /\ last.res \in {"true", "false"}
        /\ last.res = "true" <=>
              \A i \in 0..(Len(last.params) - 1) :
                  i \in DOMAIN last.c => Accepts(last.c[i], last.params[i + 1])
        /\ last.c = EmptyMap => last.res = "true"

\* A map with a predicate at index 1 only accepted a list whose value at
\* index 0 no predicate of the model accepts.
C22_Witness ==
    /\ IsMatch
    /\ DOMAIN last.c = {1}
    /\ Len(last.params) = 3
    /\ last.params[1] = V_a1
    /\ last.res = "true"

\* ------------------------------------------------------ pattern compiling

MaxPieces == 4

S_rest == <<"{", "r", "e", "s", "t", ".", ".", ".", "}">>

\* Templates are written from these pieces: a slash, a literal letter, the
\* three placeholders {id}, {name} and {rest...}, the characters ":" and "*"
\* that the matcher reserves, and an opening and a closing half of {id}.
Pieces ==
    {<<"/">>, <<"a">>, Tail(S_id), Tail(S_name), S_rest, <<":">>, <<"*">>,
     <<"{", "i">>, <<"d", "}">>}

Templates ==
    {Concat(ps) : ps \in UNION {[1..n -> Pieces] : n \in 0..MaxPieces}}

\* newPattern(s), then pattern.paramNames and pattern.httpRouterString, as
\* Router.NewRoute calls them on the template of a new Route.
Compile ==
    /\ last.op = "args"
    /\ last' = [op |-> "compile", p |-> last.p,
                names |-> paramNames(last.p),
                matcher |-> httpRouterString(last.p)]
    /\ UNCHANGED <<routers, routeObjs, conds, routes, routeByName, handlers,
                   registerCalls, notFound, createdWith, nameCalls,
                   prefixCalls, calls>>

InitPattern ==
    /\ routers = <<[prefix |-> <<>>, conditions |-> RouterRef(1), middleware |-> <<>>,
                     routeByName |-> RegistryRef(1)]>>
    /\ routeObjs = <<>>
    /\ conds = [k \in {RouterRef(1)} |-> EmptyMap]
    /\ routes = EmptyMap
    /\ routeByName = [k \in {RegistryRef(1)} |-> EmptyMap]
    /\ handlers = EmptyMap
    /\ registerCalls = EmptyMap
    /\ notFound = <<DefaultNotFound>>
    /\ createdWith = <<>>
    /\ nameCalls = <<>>
    /\ prefixCalls = << <<>> >>
    /\ calls = 0
    /\ \E p \in Templates :
          /\ UniqueNames(p)
          /\ last = [op |-> "args", p |-> p]

NextPattern == Compile

SpecPattern == InitPattern /\ [][NextPattern]_vars

IsCompile == last.op = "compile"

\* The placeholders of template p from position i on, left to right:
\* <<name, "..." or "">> for each.
RECURSIVE PlaceholdersFrom(_, _)
PlaceholdersFrom(p, i) ==
    IF i > Len(p) THEN <<>>
    ELSE LET m == MatchAt(p, i)
         IN  IF m = <<>> THEN PlaceholdersFrom(p, i + 1)
             ELSE <<[name |-> m[2], rest |-> m[3] = Ellipsis]>>
                  \o PlaceholdersFrom(p, i + Len(m[1]))

\* The end of the run of digits of s that begins at position i.
RECURSIVE DigitsEnd(_, _)
DigitsEnd(s, i) ==
    IF i <= Len(s) /\ s[i] \in Digits THEN DigitsEnd(s, i + 1) ELSE i

\* The positional markers of a matcher-facing pattern from position i on:
\* ":" or "*" and the number written after it.
RECURSIVE MarkersFrom(_, _)
MarkersFrom(s, i) ==
    IF i > Len(s) THEN <<>>
    ELSE IF s[i] \in {":", "*"}
         THEN LET j == DigitsEnd(s, i + 1)
              IN  <<[rest |-> s[i] = "*", index |-> SubSeq(s, i + 1, j - 1)]>>
                  \o MarkersFrom(s, j)
         ELSE MarkersFrom(s, i + 1)

\* Template p from position i on with its placeholders, the next of which is
\* the n-th, replaced by their markers, and the reserved characters of its
\* literal text dropped: what the shape of the template alone determines.
RECURSIVE ShapeFrom(_, _, _)
ShapeFrom(p, i, n) ==
    IF i > Len(p) THEN <<>>
    ELSE LET m == MatchAt(p, i)
         IN  IF m # <<>>
             THEN (IF m[3] = Ellipsis THEN <<"*">> ELSE <<":">>) \o Itoa(n)
                  \o ShapeFrom(p, i + Len(m[1]), n + 1)
             ELSE IF p[i] \in {":", "*"}
                  THEN ShapeFrom(p, i + 1, n)
                  ELSE <<p[i]>> \o ShapeFrom(p, i + 1, n)

\* C23: a template with k placeholders (of unique names) compiles to the k
\* names in left-to-right order and to a matcher-facing pattern with exactly
\* k markers numbered 0..k-1 left to right, ":i" for {name} and "*i" for
\* {name...}; the matcher-facing pattern is the one the shape of the
\* template determines, whatever the placeholders are called.
C23_CompilesByShape ==
    IsCompile =>
        LET ph == PlaceholdersFrom(last.p, 1)
            k == Len(ph)
        IN  /\ last.names = [i \in 1..k |-> ph[i].name]
            /\ MarkersFrom(last.matcher, 1) =
                  [i \in 1..k |-> [rest |-> ph[i].rest, index |-> Itoa(i - 1)]]
            /\ last.matcher = ShapeFrom(last.p, 1, 0)

\* ------------------------------------------------------ not-found fallback

MaxNotFoundCalls == 5

\* Scopes with middleware, a Route that accepts digits only, a not-found
\* handler and requests, some of which no Route accepts.
NextNotFound ==
    \/ \E s \in RouterIds : Call(MaxNotFoundCalls) /\ Group(s)
    \/ \E s \in RouterIds, m \in Middlewares :
          Call(MaxNotFoundCalls) /\ Use(s, <<m>>)
    \/ \E s \in RouterIds : Call(MaxNotFoundCalls) /\ NewRoute(s, S_id, <<"GET">>)
    \/ \E r \in RouteIds : Call(MaxNotFoundCalls) /\ RouteWhere(r, N_id, "digits")
    \/ \E r \in RouteIds, h \in Handlers : Call(MaxNotFoundCalls) /\ Handle(r, h)
    \/ \E s \in RouterIds, h \in NotFoundHandlers :
          Call(MaxNotFoundCalls) /\ HandleNotFound(s, h)
    \/ Serve

SpecNotFound == Init /\ [][NextNotFound]_vars

IsHandleNotFound == last.op = "HandleNotFound"
IsNotFound == IsRequest /\ last.outcome = "notfound"

\* C24: a HandleNotFound call stores its handler under the middleware the
\* configuring scope has at that call, no other call (a later Use least of
\* all) changes what is stored, and a request that no candidate accepts runs,
\* after the layers of its key and the adapter, exactly what is stored.
C24_StoredAtHandleNotFound ==
    [][IF calls' # calls /\ last'.op = "HandleNotFound"
       THEN notFound' = wrap(routers[last'.scope].middleware, <<last'.handler>>)
       ELSE notFound' = notFound]_vars

C24_FallbackRunsStored ==
    IsNotFound => AfterAdapter(last.trace) = notFound

C24_NotFoundWrappedAtConfiguration ==
    C24_StoredAtHandleNotFound /\ []C24_FallbackRunsStored

\* Use "A", HandleNotFound, Use "B" on the only scope: the fallback of a
\* request that the Route refuses still runs "A" and the handler only.
C24_Witness ==
    /\ IsNotFound
    /\ Len(routers) = 1
    /\ routers[1].middleware = <<"A", "B">>
    /\ notFound = <<"A", "nf">>
    /\ AfterAdapter(last.trace) = <<"A", "nf">>

\* How many times layer m occurs in a chain of layers.
Occurrences(trace, m) == Cardinality({i \in 1..Len(trace) : trace[i] = m})

\* No scope has the same middleware twice in its chain.
ChainsDistinct ==
    \A s \in RouterIds, m \in Middlewares :
        Occurrences(routers[s].middleware, m) <= 1

\* C27: when no scope has a middleware twice in its chain, a request runs
\* each middleware at most once, whether it is dispatched to a Route or falls
\* through to the not-found handler.
C27_EachMiddlewareOnce ==
    (IsRequest /\ ChainsDistinct) =>
        \A m \in Middlewares : Occurrences(last.trace, m) <= 1

\* --------------------------------------------------- concurrent requests

MaxServeCalls == 4
MaxRequests == 2

\* The requests in flight and finished once serving has begun: each is a
\* goroutine running the handler function of Router.newHandler, with its own
\* captured values (params), chosen Route and bound parameters.
Serving == last.op = "serving"
Requests == IF Serving THEN last.reqs ELSE <<>>
RequestIds == 1..Len(Requests)

Registration ==
    <<routers, routeObjs, conds, routes, routeByName, handlers, registerCalls,
      notFound, createdWith, nameCalls, prefixCalls, calls>>

\* The external matcher resolves a request to key k with the captured values
\* raw and calls the registered handler in a goroutine of its own.
Accept(k, raw) ==
    /\ Len(Requests) < MaxRequests
    /\ last' = [op |-> "serving",
                reqs |-> Append(Requests,
                            [pc |-> "trim", key |-> k, raw |-> raw, params |-> raw,
                             route |-> NoRoute, bound |-> <<>>,
                             outcome |-> "pending"])]
    /\ UNCHANGED Registration

\* params[i].Value = strings.Trim(param.Value, "/"), on the request's own list
TrimStep(q) ==
    /\ Requests[q].pc = "trim"
    /\ last' = [last EXCEPT !.reqs[q].params =
                    [i \in 1..Len(Requests[q].raw) |-> Trim(Requests[q].raw[i])],
                    !.reqs[q].pc = "match"]
    /\ UNCHANGED Registration

\* route := routes.match(params); nil goes to the not-found handler
MatchStep(q) ==
    /\ Requests[q].pc = "match"
    /\ \E m \in routeListMatch(routes[Requests[q].key], Requests[q].params, 1) :
          last' = [last EXCEPT
                      !.reqs[q].route = IF m = Panicked THEN NoRoute ELSE m,
                      !.reqs[q].outcome = IF m = Panicked THEN "panic"
                                          ELSE IF m = NoRoute THEN "notfound"
                                          ELSE "pending",
                      !.reqs[q].pc = IF m \in {Panicked, NoRoute} THEN "done"
                                     ELSE "bind"]
    /\ UNCHANGED Registration

\* A binding step that writes the named parameters into a buffer the
\* requests of one Route share.
BindStepShared(q) ==
    /\ Requests[q].pc = "bind"
    /\ LET r == Requests[q].route
           named == namedParams(r, Requests[q].params)
       IN  last' = [last EXCEPT !.reqs =
                       [p \in RequestIds |->
                           IF p = q
                           THEN [Requests[p] EXCEPT !.bound = named,
                                                    !.outcome = "route",
                                                    !.pc = "done"]
                           ELSE IF Requests[p].route = r
                                THEN [Requests[p] EXCEPT !.bound = named]
                                ELSE Requests[p]]]
    /\ UNCHANGED Registration

\* namedParams := route.namedParams(params); namedParams.toRequest(r);
\* route.handler.ServeHTTP(w, r)
BindStep(q) ==
    /\ Requests[q].pc = "bind"
    /\ LET r == Requests[q].route
       IN  IF Len(Requests[q].params) > Len(routeObjs[r].paramNames)
           THEN last' = [last EXCEPT !.reqs[q].outcome = "panic",
                                     !.reqs[q].pc = "done"]
           ELSE last' = [last EXCEPT
                            !.reqs[q].bound = namedParams(r, Requests[q].params),
                            !.reqs[q].outcome = "route",
                            !.reqs[q].pc = "done"]
    /\ UNCHANGED Registration

\* Registration first, then requests handled concurrently, their steps
\* interleaved in any order.
NextServe ==
    \/ \E s \in RouterIds, path \in {S_id, S_name} :
          ~Serving /\ Call(MaxServeCalls) /\ NewRoute(s, path, <<"GET">>)
    \/ \E r \in RouteIds :
          ~Serving /\ Call(MaxServeCalls) /\ RouteWhere(r, N_id, "digits")
    \/ \E r \in RouteIds, h \in Handlers :
          ~Serving /\ Call(MaxServeCalls) /\ Handle(r, h)
    \/ \E k \in DOMAIN handlers :
          \E raw \in [1..CountParams(k[2]) -> RawValues] : Accept(k, raw)
    \/ \E q \in RequestIds : TrimStep(q)
    \/ \E q \in RequestIds : MatchStep(q)
    \/ \E q \in RequestIds : BindStep(q)

SpecServe == Init /\ [][NextServe]_vars

\* C25: the steps of request handling change nothing in the disambiguation
\* table, the condition sets, the middleware chains and the named-route
\* registry, and under any interleaving a finished request has the outcome,
\* the Route and the bound parameters that the same request has when it is
\* handled alone.
C25_RequestStepsReadOnly ==
    [][last'.op = "serving" =>
          UNCHANGED <<routers, routeObjs, conds, routes, routeByName, handlers,
                      registerCalls, notFound>>]_vars

C25_SameAsAlone ==
    \A q \in RequestIds :
        Requests[q].pc = "done" =>
            \E d \in Dispatch(Requests[q].key, Requests[q].raw) :
                /\ d.outcome = Requests[q].outcome
                /\ d.route = Requests[q].route
                /\ d.params = Requests[q].bound

C25_RequestsDoNotInterfere == C25_RequestStepsReadOnly /\ []C25_SameAsAlone

\* Two requests of one key with different captured values, the second
\* finished at a Route while the first, accepted earlier, is still about to
\* bind its parameters to the same Route.
C25_Witness ==
    /\ Len(Requests) = 2
    /\ Requests[1].pc = "bind"
    /\ Requests[2].pc = "done"
    /\ Requests[2].outcome = "route"
    /\ Requests[1].route = Requests[2].route
    /\ Requests[1].raw # Requests[2].raw
    /\ Requests[2].bound # <<>>

\* ------------------------------------------------- indices within range

MaxRangeCalls == 4

\* Scopes with and without placeholders in their prefix, predicates by known
\* and unknown names on scopes and on Routes, Routes of one and of several
\* methods, and requests.
NextRange ==
    \/ \E s \in RouterIds : Call(MaxRangeCalls) /\ Group(s)
    \/ \E s \in RouterIds, path \in PrefixPaths :
          Call(MaxRangeCalls) /\ Prefix(s, path)
    \/ \E s \in RouterIds, param \in {N_userId, N_id} :
          Call(MaxRangeCalls) /\ RouterWhere(s, param, "digits")
    \/ \E s \in RouterIds, path \in {<<>>, S_id}, methods \in MethodLists :
          Call(MaxRangeCalls) /\ NewRoute(s, path, methods)
    \/ \E r \in RouteIds, param \in {N_userId, N_id} :
          Call(MaxRangeCalls) /\ RouteWhere(r, param, "digits")
    \/ \E r \in RouteIds, h \in Handlers : Call(MaxRangeCalls) /\ Handle(r, h)
    \/ Serve

SpecRange == Init /\ [][NextRange]_vars

\* C26: every index in a Route's conditions is smaller than the number of
\* the Route's placeholders; every Route in the list of a key has the key's
\* method among its methods and compiles to the key's pattern; so every
\* index is also smaller than the number of values the matcher captures for
\* the key, and no request ends in a read outside its captured values.
C26_IndicesWithinCaptured ==
    /\ \A r \in RouteIds : \A i \in DOMAIN RouteConditions(r) :
          i < Len(routeObjs[r].paramNames)
    /\ \A k \in DOMAIN routes : \A j \in 1..Len(routes[k]) :
          LET r == routes[k][j]
          IN  /\ \E n \in 1..Len(routeObjs[r].methods) :
                    routeObjs[r].methods[n] = k[1]
              /\ httpRouterString(routeObjs[r].pattern) = k[2]
              /\ \A i \in DOMAIN RouteConditions(r) : i < CountParams(k[2])
    /\ IsRequest => last.outcome # "panic"

\* A Route of two placeholders under a prefix scope, with a predicate on the
\* second, took a request of two captured values.
C26_Witness ==
    /\ IsRequest
    /\ last.outcome = "route"
    /\ Len(last.raw) = 2
    /\ 1 \in DOMAIN RouteConditions(last.route)
====
